---- MODULE Spec2Model ----
(***************************************************************************)
(* Model of .github/scripts/advanced_features.py: TechnicalDebtIndex and   *)
(* MetricDegradationDetector, and of the two history keepers beside them:  *)
(* LOCTrendCollector.update_history_with_snapshot of loc_trend_collector.py*)
(* and AdvancedRepositoryAnalyzer.save_historical_data of analyzer.py.     *)
(*                                                                         *)
(* Numbers.  Metric values are decimal numbers; the model keeps them as    *)
(* integers in fixed point and computes every formula exactly:             *)
(*   - a float metric is an integer number of thousandths (MScale),        *)
(*   - dependency_vulnerabilities is a plain integer count,                *)
(*   - a debt sub-score is an integer number of 1/DScale debt points,      *)
(*   - a weight is an integer number of twentieths (WScale),               *)
(*   - the weighted total is in units of 1/(DScale*WScale),                *)
(*   - total_index and an alert's change are in hundredths (round(x, 2)),  *)
(*   - a value formatted with :.1f is in tenths.                           *)
(* Binary floating point error of the Python floats is not modelled.       *)
(***************************************************************************)
EXTENDS Integers, Sequences, FiniteSets, TLC

VARIABLES metrics_file, weights, op, current_metrics, pc, result, baseline, now,
          returned, threads, loc_history, snapshot, today, history_file, results

\* the state of the LOC trend collector and of the repository analyzer
collaboratorVars == <<loc_history, snapshot, today, history_file, results>>

vars == <<metrics_file, weights, op, current_metrics, pc, result, baseline, now,
          returned, threads, collaboratorVars>>

\* ---------------------------------------------------------------- scales
MScale == 1000
DScale == 100000
WScale == 20
TotalScale == DScale * WScale

\* ------------------------------------------------------ bounds of the model
MaxHistory == 3
MaxCalls == 3

\* ------------------------------------------------------------- helpers
\* a variant of Get that ignores the default given and falls back to 0
GetZero(m, key, default) == IF key \in DOMAIN m THEN m[key] ELSE 0

\* dict.get(key, default)
Get(m, key, default) == IF key \in DOMAIN m THEN m[key] ELSE default

Max(a, b) == IF a > b THEN a ELSE b
Min(a, b) == IF a < b THEN a ELSE b

\* round(): nearest multiple of unit, ties to the even neighbour; the result
\* is counted in units
RoundHalfEven(n, unit) ==
    LET q == n \div unit
        r == n % unit
    IN  IF 2 * r < unit THEN q
        ELSE IF 2 * r > unit THEN q + 1
        ELSE IF q % 2 = 0 THEN q ELSE q + 1

\* a variant of Round2Total that cuts the digits off instead of rounding
Round2TotalTruncated(total) == total \div (TotalScale \div 100)

\* round(x, 2) of a weighted total: hundredths
Round2Total(total) == RoundHalfEven(total, TotalScale \div 100)

\* round(x, 2) of a metric difference: hundredths
Round2Metric(x) == RoundHalfEven(x, MScale \div 100)

\* f"{x:.1f}" of a metric: tenths
Fmt1(x) == RoundHalfEven(x, MScale \div 10)

\* ------------------------------------------------- TechnicalDebtIndex
\* a variant of InitialWeights with 0.35 for code_quality: the sum is 1.05
InitialWeightsUnbalanced ==
    [code_quality |-> 7, complexity |-> 5, test_coverage |-> 4,
     dependencies |-> 3, duplication |-> 2]

InitialWeights ==
    [code_quality |-> 6, complexity |-> 5, test_coverage |-> 4,
     dependencies |-> 3, duplication |-> 2]

\* insertion order of the components dict
ComponentOrder ==
    <<"code_quality", "complexity", "test_coverage", "dependencies", "duplication">>

_calculate_code_quality_debt(score) ==
    Max(0, Min(100 * DScale, (10 * MScale - score) * 10 * (DScale \div MScale)))

\* a variant of _calculate_complexity_debt whose middle segment is too steep
\* (60/8 for 50/8) and overshoots the start of the last one
_calculate_complexity_debt_steep(avg_complexity) ==
    IF avg_complexity < 7 * MScale THEN 0
    ELSE IF avg_complexity < 15 * MScale
         THEN ((avg_complexity - 7 * MScale) * 60 * (DScale \div MScale)) \div 8
         ELSE 50 * DScale
              + Min(50 * DScale, (avg_complexity - 15 * MScale) * 5 * (DScale \div MScale))

_calculate_complexity_debt(avg_complexity) ==
    IF avg_complexity < 7 * MScale THEN 0
    ELSE IF avg_complexity < 15 * MScale
         THEN ((avg_complexity - 7 * MScale) * 50 * (DScale \div MScale)) \div 8
         ELSE 50 * DScale
              + Min(50 * DScale, (avg_complexity - 15 * MScale) * 5 * (DScale \div MScale))

\* a variant of _calculate_coverage_debt without the factor 0.75
_calculate_coverage_debt_full(coverage) ==
    Max(0, (100 * MScale - coverage) * (DScale \div MScale))

_calculate_coverage_debt(coverage) ==
    Max(0, ((100 * MScale - coverage) * 75 * (DScale \div MScale)) \div 100)

_calculate_dependency_debt(vulns_count) ==
    Min(100 * DScale, vulns_count * 10 * DScale)

\* a variant of _calculate_duplication_debt whose middle segment rises by 4 per
\* point, which leaves a jump at 15
_calculate_duplication_debt_flat(duplication_percent) ==
    IF duplication_percent < 5 * MScale
    THEN duplication_percent * 4 * (DScale \div MScale)
    ELSE IF duplication_percent < 15 * MScale
         THEN 20 * DScale + (duplication_percent - 5 * MScale) * 4 * (DScale \div MScale)
         ELSE 70 * DScale
              + Min(30 * DScale, (duplication_percent - 15 * MScale) * 2 * (DScale \div MScale))

_calculate_duplication_debt(duplication_percent) ==
    IF duplication_percent < 5 * MScale
    THEN duplication_percent * 4 * (DScale \div MScale)
    ELSE IF duplication_percent < 15 * MScale
         THEN 20 * DScale + (duplication_percent - 5 * MScale) * 5 * (DScale \div MScale)
         ELSE 70 * DScale
              + Min(30 * DScale, (duplication_percent - 15 * MScale) * 2 * (DScale \div MScale))

_classify_severity(debt_index) ==
    IF debt_index < 20 * TotalScale THEN "HEALTHY"
    ELSE IF debt_index < 40 * TotalScale THEN "ACCEPTABLE"
    ELSE IF debt_index < 60 * TotalScale THEN "WARNING"
    ELSE IF debt_index < 80 * TotalScale THEN "CRITICAL"
    ELSE "EXTREME"

\* a variant of Recommendation for which a sub-score of exactly 60 is high debt
RecommendationFrom60(component_name, component_data) ==
    IF component_data.score >= 60 * DScale
    THEN CASE component_name = "code_quality" ->
                <<[priority |-> "HIGH", area |-> "Code Quality",
                   issue |-> <<"Code quality score is low", component_data.metric>>,
                   action |-> "Review pylint warnings and refactor the most problematic files",
                   tool |-> "pylint"]>>
           [] component_name = "complexity" ->
                <<[priority |-> "HIGH", area |-> "Complexity",
                   issue |-> <<"Average complexity is high", Fmt1(component_data.metric)>>,
                   action |-> "Break down complex functions into smaller, testable units",
                   tool |-> "radon"]>>
           [] component_name = "test_coverage" ->
                <<[priority |-> "HIGH", area |-> "Test Coverage",
                   issue |-> <<"Test coverage is low", Fmt1(component_data.metric)>>,
                   action |-> "Write tests for uncovered code paths, focus on critical paths",
                   tool |-> "pytest"]>>
           [] component_name = "dependencies" ->
                <<[priority |-> "CRITICAL", area |-> "Security",
                   issue |-> <<"Found dependency vulnerabilities", component_data.metric>>,
                   action |-> "Update packages to patched versions immediately",
                   tool |-> "pip-audit/safety"]>>
           [] component_name = "duplication" ->
                <<[priority |-> "MEDIUM", area |-> "Code Duplication",
                   issue |-> <<"Code duplication is", Fmt1(component_data.metric)>>,
                   action |-> "Extract common code into reusable functions/modules",
                   tool |-> "radon"]>>
    ELSE <<>>

\* the record appended for one component, or nothing
Recommendation(component_name, component_data) ==
    IF component_data.score > 60 * DScale
    THEN CASE component_name = "code_quality" ->
                <<[priority |-> "HIGH", area |-> "Code Quality",
                   issue |-> <<"Code quality score is low", component_data.metric>>,
                   action |-> "Review pylint warnings and refactor the most problematic files",
                   tool |-> "pylint"]>>
           [] component_name = "complexity" ->
                <<[priority |-> "HIGH", area |-> "Complexity",
                   issue |-> <<"Average complexity is high", Fmt1(component_data.metric)>>,
                   action |-> "Break down complex functions into smaller, testable units",
                   tool |-> "radon"]>>
           [] component_name = "test_coverage" ->
                <<[priority |-> "HIGH", area |-> "Test Coverage",
                   issue |-> <<"Test coverage is low", Fmt1(component_data.metric)>>,
                   action |-> "Write tests for uncovered code paths, focus on critical paths",
                   tool |-> "pytest"]>>
           [] component_name = "dependencies" ->
                <<[priority |-> "CRITICAL", area |-> "Security",
                   issue |-> <<"Found dependency vulnerabilities", component_data.metric>>,
                   action |-> "Update packages to patched versions immediately",
                   tool |-> "pip-audit/safety"]>>
           [] component_name = "duplication" ->
                <<[priority |-> "MEDIUM", area |-> "Code Duplication",
                   issue |-> <<"Code duplication is", Fmt1(component_data.metric)>>,
                   action |-> "Extract common code into reusable functions/modules",
                   tool |-> "radon"]>>
    ELSE <<>>

IsCritical(rec) == rec.priority = "CRITICAL"
IsNotCritical(rec) == rec.priority # "CRITICAL"

\* a variant of SortCriticalFirst that leaves the list as it was built
SortCriticalFirstUnsorted(recommendations) == recommendations

\* sorted(..., key = priority == 'CRITICAL', reverse=True): a stable sort on a
\* boolean key, True first
SortCriticalFirst(recommendations) ==
    SelectSeq(recommendations, IsCritical) \o SelectSeq(recommendations, IsNotCritical)

RECURSIVE AppendRecommendations(_, _)
AppendRecommendations(components, i) ==
    IF i > Len(ComponentOrder) THEN <<>>
    ELSE Recommendation(ComponentOrder[i], components[ComponentOrder[i]])
         \o AppendRecommendations(components, i + 1)

_generate_recommendations(components) ==
    SortCriticalFirst(AppendRecommendations(components, 1))

RECURSIVE WeightedSum(_, _)
WeightedSum(components, i) ==
    IF i > Len(ComponentOrder) THEN 0
    ELSE components[ComponentOrder[i]].score * components[ComponentOrder[i]].weight
         + WeightedSum(components, i + 1)

Components(w, m) ==
    LET code_quality_score == Get(m, "code_quality_score", 5 * MScale)
        avg_complexity == Get(m, "avg_complexity", 7 * MScale)
        test_coverage == Get(m, "test_coverage", 50 * MScale)
        dep_vulns == Get(m, "dependency_vulnerabilities", 0)
        duplication == Get(m, "code_duplication_percent", 5 * MScale)
    IN  [code_quality |->
            [score |-> _calculate_code_quality_debt(code_quality_score),
             metric |-> code_quality_score, weight |-> w.code_quality],
         complexity |->
            [score |-> _calculate_complexity_debt(avg_complexity),
             metric |-> avg_complexity, weight |-> w.complexity],
         test_coverage |->
            [score |-> _calculate_coverage_debt(test_coverage),
             metric |-> test_coverage, weight |-> w.test_coverage],
         dependencies |->
            [score |-> _calculate_dependency_debt(dep_vulns),
             metric |-> dep_vulns, weight |-> w.dependencies],
         duplication |->
            [score |-> _calculate_duplication_debt(duplication),
             metric |-> duplication, weight |-> w.duplication]]

\* a variant of calculate_debt_index whose total carries over from the calls
\* made before (one point per earlier call)
calculate_debt_index_drifting(w, m, clock) ==
    LET components == Components(w, m)
        total_debt == WeightedSum(components, 1) + clock * TotalScale
    IN  [kind |-> "report",
         total_index |-> Round2Total(total_debt),
         components |-> components,
         severity |-> _classify_severity(total_debt),
         recommendations |-> _generate_recommendations(components),
         timestamp |-> clock]

calculate_debt_index(w, m, clock) ==
    LET components == Components(w, m)
        total_debt == WeightedSum(components, 1)
    IN  [kind |-> "report",
         total_index |-> Round2Total(total_debt),
         components |-> components,
         severity |-> _classify_severity(total_debt),
         recommendations |-> _generate_recommendations(components),
         timestamp |-> clock]

\* ------------------------------------------------------------ inputs
Opt(S) == {<<>>} \cup {<<x>> : x \in S}

Snapshot(q, c, t, v, d) ==
    LET choice == [code_quality_score |-> q, avg_complexity |-> c,
                   test_coverage |-> t, dependency_vulnerabilities |-> v,
                   code_duplication_percent |-> d]
        present == {k \in DOMAIN choice : choice[k] # <<>>}
    IN  [k \in present |-> choice[k][1]]

QualityValues == {0, 3334, 3999, 4000, 10000, 12000}
ComplexityValues == {0, 7000, 14999, 15000, 17000, 17001, 25000, 30000}
CoverageValues == {-100000, 0, 19999, 20000, 100000, 120000}
VulnerabilityValues == {-1, 0, 1, 6, 7, 10, 12}
DuplicationValues == {-5000, 0, 5000, 13000, 13001, 15000, 30000, 40000}

\* snapshots made of the five known fields, any of them absent
KnownFieldSnapshots ==
    {Snapshot(q, c, t, v, d) :
        q \in Opt(QualityValues), c \in Opt(ComplexityValues),
        t \in Opt(CoverageValues), v \in Opt(VulnerabilityValues),
        d \in Opt(DuplicationValues)}

\* a snapshot with a field the calculator does not know
WithExtraField(m) ==
    [k \in DOMAIN m \cup {"lines_of_code"} |->
        IF k = "lines_of_code" THEN 1200 ELSE m[k]]

ExtraFieldSnapshots ==
    {WithExtraField(Snapshot(q, c, t, v, d)) :
        q \in Opt({3334}), c \in Opt({17001}), t \in Opt({0}),
        v \in Opt({7}), d \in Opt({13001})}

DebtSnapshots == KnownFieldSnapshots \cup ExtraFieldSnapshots

\* ------------------------------------------- MetricDegradationDetector
NoBaseline == [branch |-> "none", index |-> 0]

\* a variant of TooShort that lets a history of one entry through
TooShortOffByOne(history) == Len(history) < 1

\* len(history) < 2: no comparison is made
TooShort(history) == Len(history) < 2

\* a variant of SelectBaseline that takes the last entry, history[-1]
SelectBaselineLast(history) ==
    IF Len(history) > 1
    THEN [branch |-> "second_to_last", index |-> Len(history)]
    ELSE [branch |-> "first", index |-> 1]

\* previous = history[-2] if len(history) > 1 else history[0]
\* (the position is 1-based here: history[-2] is position Len - 1)
SelectBaseline(history) ==
    IF Len(history) > 1
    THEN [branch |-> "second_to_last", index |-> Len(history) - 1]
    ELSE [branch |-> "first", index |-> 1]

QualityDeclined(prev_quality, curr_quality) ==
    curr_quality < prev_quality - MScale \div 2

ComplexityIncreased(prev_complexity, curr_complexity) ==
    curr_complexity > prev_complexity + 1 * MScale

\* a variant of CoverageDropped whose margin is not strict
CoverageDroppedNonStrict(prev_coverage, curr_coverage) ==
    curr_coverage <= prev_coverage - 2 * MScale

CoverageDropped(prev_coverage, curr_coverage) ==
    curr_coverage < prev_coverage - 2 * MScale

\* a variant of VulnerabilitiesAdded with a margin of one, like the other rules
VulnerabilitiesAddedWithMargin(prev_vulns, curr_vulns) ==
    curr_vulns > prev_vulns + 1

VulnerabilitiesAdded(prev_vulns, curr_vulns) ==
    curr_vulns > prev_vulns

\* a variant of QualityAlert that reports the two values the wrong way round
QualityAlertSwapped(previous, current) ==
    LET prev_quality == Get(previous, "code_quality_score", 5 * MScale)
        curr_quality == Get(current, "code_quality_score", 5 * MScale)
    IN  IF QualityDeclined(prev_quality, curr_quality)
        THEN <<[type |-> "QUALITY_DECLINE", severity |-> "WARNING",
                metric |-> "Code Quality",
                previous |-> curr_quality, current |-> prev_quality,
                change |-> Round2Metric(prev_quality - curr_quality),
                message |-> <<"Code quality declined", prev_quality, curr_quality>>,
                action |-> "Review recent changes and address style/complexity issues"]>>
        ELSE <<>>

QualityAlert(previous, current) ==
    LET prev_quality == Get(previous, "code_quality_score", 5 * MScale)
        curr_quality == Get(current, "code_quality_score", 5 * MScale)
    IN  IF QualityDeclined(prev_quality, curr_quality)
        THEN <<[type |-> "QUALITY_DECLINE", severity |-> "WARNING",
                metric |-> "Code Quality",
                previous |-> prev_quality, current |-> curr_quality,
                change |-> Round2Metric(curr_quality - prev_quality),
                message |-> <<"Code quality declined", prev_quality, curr_quality>>,
                action |-> "Review recent changes and address style/complexity issues"]>>
        ELSE <<>>

ComplexityAlert(previous, current) ==
    LET prev_complexity == Get(previous, "avg_complexity", 7 * MScale)
        curr_complexity == Get(current, "avg_complexity", 7 * MScale)
    IN  IF ComplexityIncreased(prev_complexity, curr_complexity)
        THEN <<[type |-> "COMPLEXITY_INCREASE", severity |-> "WARNING",
                metric |-> "Complexity",
                previous |-> prev_complexity, current |-> curr_complexity,
                change |-> Round2Metric(curr_complexity - prev_complexity),
                message |-> <<"Complexity increased",
                              Fmt1(prev_complexity), Fmt1(curr_complexity)>>,
                action |-> "Refactor complex functions before adding more logic"]>>
        ELSE <<>>

CoverageAlert(previous, current) ==
    LET prev_coverage == Get(previous, "test_coverage", 50 * MScale)
        curr_coverage == Get(current, "test_coverage", 50 * MScale)
    IN  IF CoverageDropped(prev_coverage, curr_coverage)
        THEN <<[type |-> "COVERAGE_DROP", severity |-> "MEDIUM",
                metric |-> "Test Coverage",
                previous |-> prev_coverage, current |-> curr_coverage,
                change |-> Round2Metric(curr_coverage - prev_coverage),
                message |-> <<"Test coverage dropped",
                              Fmt1(prev_coverage), Fmt1(curr_coverage)>>,
                action |-> "Add tests for new code before committing"]>>
        ELSE <<>>

VulnerabilityAlert(previous, current) ==
    LET prev_vulns == Get(previous, "dependency_vulnerabilities", 0)
        curr_vulns == Get(current, "dependency_vulnerabilities", 0)
    IN  IF VulnerabilitiesAdded(prev_vulns, curr_vulns)
        THEN <<[type |-> "NEW_VULNERABILITIES", severity |-> "CRITICAL",
                metric |-> "Security",
                previous |-> prev_vulns, current |-> curr_vulns,
                change |-> curr_vulns - prev_vulns,
                message |-> <<"Found new vulnerabilities", curr_vulns - prev_vulns>>,
                action |-> "Update dependencies immediately to patch known vulnerabilities"]>>
        ELSE <<>>

\* a variant of CompareMetrics in which a check is made only if the ones
\* before it found nothing (an elif chain)
CompareMetricsElif(previous, current) ==
    IF QualityAlert(previous, current) # <<>> THEN QualityAlert(previous, current)
    ELSE IF ComplexityAlert(previous, current) # <<>> THEN ComplexityAlert(previous, current)
    ELSE IF CoverageAlert(previous, current) # <<>> THEN CoverageAlert(previous, current)
    ELSE VulnerabilityAlert(previous, current)

\* a variant of CompareMetrics that puts the CRITICAL alert first
CompareMetricsCriticalFirst(previous, current) ==
    VulnerabilityAlert(previous, current) \o QualityAlert(previous, current)
    \o ComplexityAlert(previous, current) \o CoverageAlert(previous, current)

\* the four checks, in the order of the code
CompareMetrics(previous, current) ==
    QualityAlert(previous, current) \o ComplexityAlert(previous, current)
    \o CoverageAlert(previous, current) \o VulnerabilityAlert(previous, current)

\* a variant of detect_degradation that also looks at the last entry: an
\* alert is kept only if the last entry confirms it
detect_degradation_trend(file, current) ==
    IF file.kind # "list" \/ TooShort(file.entries)
    THEN [alerts |-> <<>>, baseline |-> NoBaseline, raised |-> "none"]
    ELSE LET history == file.entries
             selected == SelectBaseline(history)
             confirmed(a) ==
                 \E i \in 1..Len(CompareMetrics(history[Len(history)], current)) :
                     CompareMetrics(history[Len(history)], current)[i].type = a.type
         IN  [alerts |-> SelectSeq(CompareMetrics(history[selected.index], current),
                                   confirmed),
              baseline |-> selected, raised |-> "none"]

\* the two ways a call ends: it returns its alerts, or an exception that no
\* handler of the method catches leaves it
Returns(alerts, selected) ==
    [alerts |-> alerts, baseline |-> selected, raised |-> "none"]

Raises(exception) ==
    [alerts |-> <<>>, baseline |-> NoBaseline, raised |-> exception]

\* the alerts returned and the baseline selection made on the way, or the
\* exception raised. The kinds of file content:
\*   absent       exists() is false
\*   unreadable   open() raises an OSError (IOError), which is caught
\*   undecodable  the bytes are not text in the platform's encoding: read()
\*                raises UnicodeDecodeError, a ValueError, which is not caught
\*   corrupt      text that is not JSON: JSONDecodeError, which is caught
\*   scalar       a JSON number, true, false or null: len() raises TypeError
\*   object       a JSON object, entries holding its member values: len() is
\*                the number of keys and history[-2] raises KeyError
\*   list         a JSON array of objects
detect_degradation(file, current) ==
    IF file.kind = "absent" THEN Returns(<<>>, NoBaseline)
    ELSE IF file.kind = "unreadable" THEN Returns(<<>>, NoBaseline)
    ELSE IF file.kind = "undecodable" THEN Raises("UnicodeDecodeError")
    ELSE IF file.kind = "corrupt" THEN Returns(<<>>, NoBaseline)
    ELSE IF file.kind = "scalar" THEN Raises("TypeError")
    ELSE LET history == file.entries
         IN  IF TooShort(history) THEN Returns(<<>>, NoBaseline)
             ELSE IF file.kind = "object" THEN Raises("KeyError")
             ELSE LET selected == SelectBaseline(history)
                  IN  Returns(CompareMetrics(history[selected.index], current),
                              selected)

\* ------------------------------------------------------- detector inputs
HistoryEntries ==
    {<<>>,
     [code_quality_score |-> 6000, avg_complexity |-> 8000,
      test_coverage |-> 80000, dependency_vulnerabilities |-> 1],
     [code_quality_score |-> 9000, avg_complexity |-> 3000,
      test_coverage |-> 95000, dependency_vulnerabilities |-> 0,
      code_duplication_percent |-> 2000]}

Histories == UNION {[1..n -> HistoryEntries] : n \in 0..MaxHistory}

AbsentFile == [kind |-> "absent", entries |-> <<>>]
CorruptFile == [kind |-> "corrupt", entries |-> <<>>]
UnreadableFile == [kind |-> "unreadable", entries |-> <<>>]
UndecodableFile == [kind |-> "undecodable", entries |-> <<>>]
ScalarFile == [kind |-> "scalar", entries |-> <<>>]

\* JSON objects of up to MaxKeys members, such as the one save_metrics of
\* repo_health_metrics.py writes
MaxKeys == 2

ObjectFiles ==
    {[kind |-> "object", entries |-> h] : h \in {g \in Histories : Len(g) <= MaxKeys}}

MetricsFiles ==
    {AbsentFile, CorruptFile, UnreadableFile, UndecodableFile, ScalarFile}
    \cup ObjectFiles
    \cup {[kind |-> "list", entries |-> h] : h \in Histories}

DetectQualityValues == {4499, 4500, 5123, 5499, 5500, 6000}
DetectComplexityValues == {7000, 8000, 8001, 9000, 9001}
DetectCoverageValues == {47999, 48000, 77900, 78000, 78500, 80000}
DetectVulnerabilityValues == {0, 1, 2}

DetectSnapshots ==
    {Snapshot(q, c, t, v, <<>>) :
        q \in Opt(DetectQualityValues), c \in Opt(DetectComplexityValues),
        t \in Opt(DetectCoverageValues), v \in Opt(DetectVulnerabilityValues)}

NoResult == [kind |-> "none"]

\* no concurrent calls are under way
NoThreads == <<>>

\* the collector and the analyzer as constructed, before any of their methods
\* is called: an empty self.history, no snapshot collected, no history file
NoSnapshot == <<>>
NoResults == [timestamp |-> 0, warnings |-> <<>>]

CollectorIdle ==
    /\ loc_history = <<>>
    /\ snapshot = NoSnapshot
    /\ today = 0

AnalyzerIdle ==
    /\ history_file = AbsentFile
    /\ results = NoResults

CollaboratorsIdle == CollectorIdle /\ AnalyzerIdle

\* ------------------------------------------------------------- actions
\* a call is pending with its argument; the metrics file is whatever the
\* collaborators left on disk
InitCalculate ==
    /\ op = "calculate_debt_index"
    /\ current_metrics \in DebtSnapshots
    /\ metrics_file = AbsentFile

InitDetect ==
    /\ op = "detect_degradation"
    /\ current_metrics \in DetectSnapshots
    /\ metrics_file \in MetricsFiles

Init ==
    /\ weights = InitialWeights
    /\ pc = "call"
    /\ result = NoResult
    /\ baseline = NoBaseline
    /\ now = 0
    /\ returned = <<>>
    /\ threads = NoThreads
    /\ CollaboratorsIdle
    /\ (InitCalculate \/ InitDetect)

\* the calls that have returned so far, with their argument and result
CallRecord(o, m, r) == [op |-> o, arg |-> m, result |-> r]

\* a variant of CalculateDebtIndex that fills the defaults into the caller's
\* mapping (setdefault for get)
CalculateDebtIndexSetDefault ==
    /\ pc = "call"
    /\ op = "calculate_debt_index"
    /\ result' = calculate_debt_index(weights, current_metrics, now)
    /\ current_metrics' =
          [k \in DOMAIN current_metrics
                 \cup {"code_quality_score", "avg_complexity", "test_coverage",
                       "dependency_vulnerabilities", "code_duplication_percent"} |->
              IF k \in DOMAIN current_metrics THEN current_metrics[k]
              ELSE IF k = "code_quality_score" THEN 5 * MScale
              ELSE IF k = "avg_complexity" THEN 7 * MScale
              ELSE IF k = "test_coverage" THEN 50 * MScale
              ELSE IF k = "dependency_vulnerabilities" THEN 0
              ELSE 5 * MScale]
    /\ pc' = "return"
    /\ now' = now + 1
    /\ returned' = Append(returned, CallRecord(op, current_metrics, result'))
    /\ UNCHANGED <<metrics_file, weights, op, baseline, threads, collaboratorVars>>

CalculateDebtIndex ==
    /\ pc = "call"
    /\ op = "calculate_debt_index"
    /\ result' = calculate_debt_index(weights, current_metrics, now)
    /\ pc' = "return"
    /\ now' = now + 1
    /\ returned' = Append(returned, CallRecord(op, current_metrics, result'))
    /\ UNCHANGED <<metrics_file, weights, op, current_metrics, baseline>>
    /\ UNCHANGED <<threads, collaboratorVars>>

DetectDegradation ==
    /\ pc = "call"
    /\ op = "detect_degradation"
    /\ LET r == detect_degradation(metrics_file, current_metrics)
       IN  /\ result' = IF r.raised = "none"
                        THEN [kind |-> "alerts", alerts |-> r.alerts]
                        ELSE [kind |-> "raise", exception |-> r.raised]
           /\ baseline' = r.baseline
    /\ pc' = "return"
    /\ returned' = Append(returned, CallRecord(op, current_metrics, result'))
    /\ UNCHANGED <<metrics_file, weights, op, current_metrics, now>>
    /\ UNCHANGED <<threads, collaboratorVars>>

Next == CalculateDebtIndex \/ DetectDegradation

Spec == Init /\ [][Next]_vars

\* ------------------------------------------------- sequences of calls
\* the arguments of the calls of a sequence
CallSnapshots ==
    {<<>>,
     WithExtraField(<<>>),
     Snapshot(<<0>>, <<30000>>, <<0>>, <<12>>, <<40000>>),
     Snapshot(<<4499>>, <<8001>>, <<47999>>, <<1>>, <<>>)}

\* the metrics files of a sequence of calls: none, or two entries of which
\* the first is empty
CallFiles ==
    {AbsentFile}
    \cup {[kind |-> "list", entries |-> <<<<>>, e>>] : e \in HistoryEntries}

Operations == {"calculate_debt_index", "detect_degradation"}

InitCalls ==
    /\ weights = InitialWeights
    /\ pc = "call"
    /\ result = NoResult
    /\ baseline = NoBaseline
    /\ now = 0
    /\ returned = <<>>
    /\ threads = NoThreads
    /\ CollaboratorsIdle
    /\ op \in Operations
    /\ current_metrics \in CallSnapshots
    /\ metrics_file \in CallFiles

\* the caller takes the result and makes the next call, on the same
\* calculator and detector
IssueCall ==
    /\ pc = "return"
    /\ Len(returned) < MaxCalls
    /\ op' \in Operations
    /\ current_metrics' \in CallSnapshots
    /\ pc' = "call"
    /\ result' = NoResult
    /\ baseline' = NoBaseline
    /\ UNCHANGED <<metrics_file, weights, now, returned, threads, collaboratorVars>>

NextCalls == CalculateDebtIndex \/ DetectDegradation \/ IssueCall

SpecCalls == InitCalls /\ [][NextCalls]_vars

\* the calculator and the detector as constructed, with no call under way
CoreIdle ==
    /\ weights = InitialWeights
    /\ metrics_file = AbsentFile
    /\ current_metrics = <<>>
    /\ result = NoResult
    /\ baseline = NoBaseline
    /\ now = 0
    /\ threads = NoThreads

\* ------------------------------------------------- concurrent calls
\* MaxThreads calls run at once on one calculator and one detector. A call
\* of calculate_debt_index first builds its components from its argument and
\* self.weights, then sums them and returns; a call of detect_degradation
\* first loads the history file, then compares and returns. The steps of
\* different calls interleave in every order.
MaxThreads == 2

ThreadIds == 1..MaxThreads

NoLocals == [kind |-> "none"]

Thread(o, m) ==
    [op |-> o, arg |-> m, pc |-> "start", locals |-> NoLocals,
     result |-> NoResult, overlapped |-> FALSE]

InitThreads ==
    /\ weights = InitialWeights
    /\ metrics_file \in CallFiles
    /\ threads \in [ThreadIds -> {Thread(o, m) : o \in Operations, m \in CallSnapshots}]
    /\ op = "concurrent"
    /\ pc = "threads"
    /\ current_metrics = <<>>
    /\ result = NoResult
    /\ baseline = NoBaseline
    /\ now = 0
    /\ returned = <<>>
    /\ CollaboratorsIdle

\* another call is between its two steps (history variable of the model)
OthersMidway(t) == \E u \in ThreadIds \ {t} : threads[u].pc = "mid"

\* a variant of ThreadBuildComponents that keeps the weights normalised in
\* the shared calculator: it writes self.weights while building
ThreadBuildComponentsNormalising(t) ==
    /\ pc = "threads"
    /\ threads[t].pc = "start"
    /\ threads[t].op = "calculate_debt_index"
    /\ threads' = [threads EXCEPT
          ![t].pc = "mid",
          ![t].locals = [kind |-> "components",
                         components |-> Components(weights, threads[t].arg)],
          ![t].overlapped = @ \/ OthersMidway(t)]
    /\ weights' = [n \in DOMAIN weights |-> weights[n] \div 2]
    /\ UNCHANGED <<metrics_file, op, current_metrics, pc, result, baseline, now,
                   returned, collaboratorVars>>

ThreadBuildComponents(t) ==
    /\ pc = "threads"
    /\ threads[t].pc = "start"
    /\ threads[t].op = "calculate_debt_index"
    /\ threads' = [threads EXCEPT
          ![t].pc = "mid",
          ![t].locals = [kind |-> "components",
                         components |-> Components(weights, threads[t].arg)],
          ![t].overlapped = @ \/ OthersMidway(t)]
    /\ UNCHANGED <<metrics_file, weights, op, current_metrics, pc, result, baseline,
                   now, returned, collaboratorVars>>

ThreadReturnReport(t) ==
    /\ pc = "threads"
    /\ threads[t].pc = "mid"
    /\ threads[t].op = "calculate_debt_index"
    /\ LET components == threads[t].locals.components
           total_debt == WeightedSum(components, 1)
           report == [kind |-> "report",
                      total_index |-> Round2Total(total_debt),
                      components |-> components,
                      severity |-> _classify_severity(total_debt),
                      recommendations |-> _generate_recommendations(components),
                      timestamp |-> now]
       IN  threads' = [threads EXCEPT
              ![t].pc = "done",
              ![t].result = report,
              ![t].overlapped = @ \/ OthersMidway(t)]
    /\ now' = now + 1
    /\ UNCHANGED <<metrics_file, weights, op, current_metrics, pc, result, baseline,
                   returned, collaboratorVars>>

ThreadLoadHistory(t) ==
    /\ pc = "threads"
    /\ threads[t].pc = "start"
    /\ threads[t].op = "detect_degradation"
    /\ threads' = [threads EXCEPT
          ![t].pc = "mid",
          ![t].locals = [kind |-> "history", file |-> metrics_file],
          ![t].overlapped = @ \/ OthersMidway(t)]
    /\ UNCHANGED <<metrics_file, weights, op, current_metrics, pc, result, baseline,
                   now, returned, collaboratorVars>>

ThreadReturnAlerts(t) ==
    /\ pc = "threads"
    /\ threads[t].pc = "mid"
    /\ threads[t].op = "detect_degradation"
    /\ LET r == detect_degradation(threads[t].locals.file, threads[t].arg)
       IN  threads' = [threads EXCEPT
              ![t].pc = "done",
              ![t].result = IF r.raised = "none"
                            THEN [kind |-> "alerts", alerts |-> r.alerts]
                            ELSE [kind |-> "raise", exception |-> r.raised],
              ![t].overlapped = @ \/ OthersMidway(t)]
    /\ UNCHANGED <<metrics_file, weights, op, current_metrics, pc, result, baseline,
                   now, returned, collaboratorVars>>

NextThreads ==
    \E t \in ThreadIds :
        \/ ThreadBuildComponents(t)
        \/ ThreadReturnReport(t)
        \/ ThreadLoadHistory(t)
        \/ ThreadReturnAlerts(t)

SpecThreads == InitThreads /\ [][NextThreads]_vars

\* ===================================================== claims: the calculator
ReportReturned ==
    pc = "return" /\ op = "calculate_debt_index" /\ result.kind = "report"

ComponentNames ==
    {"code_quality", "complexity", "test_coverage", "dependencies", "duplication"}

\* C1: every component debt sub-score of a returned report lies in [0,100],
\* whatever the values of the snapshot's fields.
C1_ComponentScoresInRange ==
    ReportReturned =>
        \A n \in ComponentNames :
            /\ result.components[n].score >= 0
            /\ result.components[n].score <= 100 * DScale

\* C2: the total_index of a returned report lies in [0,100].
C2_TotalIndexInRange ==
    ReportReturned => (result.total_index >= 0 /\ result.total_index <= 100 * 100)

\* the label of the interval that holds an index given in hundredths
IntervalLabel(index) ==
    IF index < 20 * 100 THEN "HEALTHY"
    ELSE IF index < 40 * 100 THEN "ACCEPTABLE"
    ELSE IF index < 60 * 100 THEN "WARNING"
    ELSE IF index < 80 * 100 THEN "CRITICAL"
    ELSE "EXTREME"

\* C3: the severity of a returned report is the label of the interval that
\* holds the total_index of the same report.
C3_SeverityMatchesReportedIndex ==
    ReportReturned => result.severity = IntervalLabel(result.total_index)

\* the weighted sum read off the report's own components
ReportedWeightedSum ==
    LET c == result.components
    IN  c.code_quality.score * c.code_quality.weight
        + c.complexity.score * c.complexity.weight
        + c.test_coverage.score * c.test_coverage.weight
        + c.dependencies.score * c.dependencies.weight
        + c.duplication.score * c.duplication.weight

Abs(x) == IF x < 0 THEN 0 - x ELSE x

\* n hundredths is x (in units of 1/scale) rounded to two decimals: no
\* hundredth is nearer, and of two equally near the even one is taken
IsRoundedTo2(n, x, scale) ==
    LET unit == scale \div 100
        gap == Abs(n * unit - x)
    IN  /\ 2 * gap <= unit
        /\ (2 * gap = unit => n % 2 = 0)

\* C4: total_index is the sum over the five components of sub-score x weight,
\* rounded to two decimals, the weights being the fixed ones (which add up to
\* one), with no other term.
C4_TotalIsRoundedWeightedSum ==
    ReportReturned =>
        /\ IsRoundedTo2(result.total_index, ReportedWeightedSum, TotalScale)
        /\ DOMAIN result.components = ComponentNames
        /\ result.components.code_quality.weight * 100 = 30 * WScale
        /\ result.components.complexity.weight * 100 = 25 * WScale
        /\ result.components.test_coverage.weight * 100 = 20 * WScale
        /\ result.components.dependencies.weight * 100 = 15 * WScale
        /\ result.components.duplication.weight * 100 = 10 * WScale

\* C4 witness: a report whose weighted sum is not a whole number of
\* hundredths, so that the rounding acted
C4_Witness ==
    /\ ReportReturned
    /\ ReportedWeightedSum % (TotalScale \div 100) # 0
    /\ result.total_index * (TotalScale \div 100) > ReportedWeightedSum
    /\ result.total_index > 0

\* ======================================================= claims: the detector
AlertsReturned ==
    pc = "return" /\ op = "detect_degradation" /\ result.kind = "alerts"

\* the call went as far as selecting a baseline
Compared == AlertsReturned /\ baseline.branch # "none"

HistoryLen == IF metrics_file.kind = "list" THEN Len(metrics_file.entries) ELSE 0

InHistory(m) == \E i \in 1..HistoryLen : metrics_file.entries[i] = m

RuleTypes ==
    {"QUALITY_DECLINE", "COMPLEXITY_INCREASE", "COVERAGE_DROP", "NEW_VULNERABILITIES"}

TypesOf(alerts) == {alerts[i].type : i \in 1..Len(alerts)}

AlertsOfType(alerts, t) == {i \in 1..Len(alerts) : alerts[i].type = t}

\* the value of a tracked field in a snapshot, with the documented default
Field(m, t) ==
    CASE t = "QUALITY_DECLINE" -> Get(m, "code_quality_score", 5 * MScale)
      [] t = "COMPLEXITY_INCREASE" -> Get(m, "avg_complexity", 7 * MScale)
      [] t = "COVERAGE_DROP" -> Get(m, "test_coverage", 50 * MScale)
      [] t = "NEW_VULNERABILITIES" -> Get(m, "dependency_vulnerabilities", 0)

\* the rule of type t, as documented, on the pair (previous, current)
RuleHolds(t, previous, current) ==
    LET p == Field(previous, t)
        c == Field(current, t)
    IN  CASE t = "QUALITY_DECLINE" -> 10 * c < 10 * p - 5 * MScale
          [] t = "COMPLEXITY_INCREASE" -> c > p + MScale
          [] t = "COVERAGE_DROP" -> c < p - 2 * MScale
          [] t = "NEW_VULNERABILITIES" -> c > p

\* C5: against a history of at least two snapshots that does not hold the
\* current one, the comparison is made with the most recent (last) entry.
C5_ComparesWithLastEntry ==
    (AlertsReturned /\ HistoryLen >= 2 /\ ~InHistory(current_metrics)) =>
        LET last == metrics_file.entries[HistoryLen]
        IN  /\ TypesOf(result.alerts) = {t \in RuleTypes : RuleHolds(t, last, current_metrics)}
            /\ \A i \in 1..Len(result.alerts) :
                  result.alerts[i].previous = Field(last, result.alerts[i].type)

\* C6: with at least two entries the baseline is the second-to-last entry;
\* the fallback to the first entry is never taken; with exactly two entries
\* the baseline is the first of them.
C6_BaselineIsSecondToLast ==
    /\ baseline.branch # "first"
    /\ (AlertsReturned /\ HistoryLen >= 2) =>
          /\ baseline.branch = "second_to_last"
          /\ baseline.index = HistoryLen - 1
          /\ (HistoryLen = 2 => baseline.index = 1)
          /\ \A i \in 1..Len(result.alerts) :
                result.alerts[i].previous
                    = Field(metrics_file.entries[HistoryLen - 1], result.alerts[i].type)
          /\ TypesOf(result.alerts)
                = {t \in RuleTypes :
                     RuleHolds(t, metrics_file.entries[HistoryLen - 1], current_metrics)}

\* C6 witness: three entries, the last two of which would give different
\* alerts, and the alerts are those of the second-to-last
C6_Witness ==
    /\ AlertsReturned
    /\ HistoryLen = 3
    /\ result.alerts # <<>>
    /\ {t \in RuleTypes : RuleHolds(t, metrics_file.entries[2], current_metrics)}
         # {t \in RuleTypes : RuleHolds(t, metrics_file.entries[3], current_metrics)}
    /\ {t \in RuleTypes : RuleHolds(t, metrics_file.entries[2], current_metrics)}
         # {t \in RuleTypes : RuleHolds(t, metrics_file.entries[1], current_metrics)}

\* C7: with a history of no or one entry the list of alerts is empty.
C7_ShortHistoryNoAlerts ==
    (AlertsReturned /\ HistoryLen < 2) => result.alerts = <<>>

\* C7 witness: a single entry against which rules would have fired
C7_Witness ==
    /\ AlertsReturned
    /\ HistoryLen = 1
    /\ result.alerts = <<>>
    /\ \A t \in RuleTypes : RuleHolds(t, metrics_file.entries[1], current_metrics)

\* a current snapshot that fires exactly the rules in S against the empty
\* (all defaults) baseline exists among the inputs
Producible(S) ==
    \E c \in DetectSnapshots : TypesOf(CompareMetrics(<<>>, c)) = S

\* C8: the types of the alerts are exactly the rules whose condition holds on
\* the pair (baseline, current), each taken on its own; and each of the 16
\* sets of rules is the outcome for some current snapshot.
C8_AlertsAreTheRulesThatHold ==
    Compared =>
        LET previous == metrics_file.entries[baseline.index]
        IN  /\ \A t \in RuleTypes :
                  t \in TypesOf(result.alerts) <=> RuleHolds(t, previous, current_metrics)
            /\ TypesOf(result.alerts) \subseteq RuleTypes
            /\ (previous = <<>> /\ current_metrics = <<>> /\ HistoryLen = 2) =>
                  \A S \in SUBSET RuleTypes : Producible(S)

\* C8 witness: all four rules fire at once
C8_Witness ==
    /\ Compared
    /\ TypesOf(result.alerts) = RuleTypes
    /\ Len(result.alerts) = 4

HasAlert(t) == t \in TypesOf(result.alerts)

FixedSeverity(t) ==
    CASE t = "QUALITY_DECLINE" -> "WARNING"
      [] t = "COMPLEXITY_INCREASE" -> "WARNING"
      [] t = "COVERAGE_DROP" -> "MEDIUM"
      [] t = "NEW_VULNERABILITIES" -> "CRITICAL"

\* what C10 says of every alert but its change
AlertsWellFormed ==
    LET previous == metrics_file.entries[baseline.index]
        alerts == result.alerts
    IN  /\ Len(alerts) <= 4
        /\ \A t \in RuleTypes :
              Cardinality(AlertsOfType(alerts, t))
                  = IF RuleHolds(t, previous, current_metrics) THEN 1 ELSE 0
        /\ \A i \in 1..Len(alerts) :
              /\ alerts[i].type \in RuleTypes
              /\ alerts[i].severity = FixedSeverity(alerts[i].type)
              /\ alerts[i].previous = Field(previous, alerts[i].type)
              /\ alerts[i].current = Field(current_metrics, alerts[i].type)

\* C10 as stated: one alert per rule that fires, with the rule's type and
\* severity, the baseline value, the current value, and change equal to
\* current - previous.
C10_ChangeIsExactDifference ==
    Compared =>
        /\ AlertsWellFormed
        /\ \A i \in 1..Len(result.alerts) :
              LET a == result.alerts[i]
              IN  IF a.type = "NEW_VULNERABILITIES"
                  THEN a.change = a.current - a.previous
                  ELSE a.change * (MScale \div 100) = a.current - a.previous

\* C10 amended: as above, but the change of the three float metrics is
\* current - previous rounded to two decimals; the change of the
\* vulnerability count is the exact difference.
C10_ChangeIsRoundedDifference ==
    Compared =>
        /\ AlertsWellFormed
        /\ \A i \in 1..Len(result.alerts) :
              LET a == result.alerts[i]
              IN  IF a.type = "NEW_VULNERABILITIES"
                  THEN a.change = a.current - a.previous
                  ELSE IsRoundedTo2(a.change, a.current - a.previous, MScale)

\* C10 witness: four alerts, one of them with a change that the rounding
\* altered
C10_Witness ==
    /\ Compared
    /\ Len(result.alerts) = 4
    /\ \E i \in 1..Len(result.alerts) :
          /\ result.alerts[i].type # "NEW_VULNERABILITIES"
          /\ result.alerts[i].change * (MScale \div 100)
                # result.alerts[i].current - result.alerts[i].previous

RuleRank(t) ==
    CASE t = "QUALITY_DECLINE" -> 1
      [] t = "COMPLEXITY_INCREASE" -> 2
      [] t = "COVERAGE_DROP" -> 3
      [] t = "NEW_VULNERABILITIES" -> 4

\* C11: the alerts come in the fixed rule order quality, complexity,
\* coverage, vulnerabilities, whatever their severities; a CRITICAL
\* NEW_VULNERABILITIES alert is the last one.
C11_AlertsInRuleOrder ==
    AlertsReturned =>
        /\ \A i, j \in 1..Len(result.alerts) :
              i < j => RuleRank(result.alerts[i].type) < RuleRank(result.alerts[j].type)
        /\ \A i \in 1..Len(result.alerts) :
              result.alerts[i].type = "NEW_VULNERABILITIES" => i = Len(result.alerts)

\* C11 witness: a CRITICAL alert behind a WARNING and a MEDIUM one
C11_Witness ==
    /\ AlertsReturned
    /\ Len(result.alerts) = 3
    /\ result.alerts[1].severity = "WARNING"
    /\ result.alerts[2].severity = "MEDIUM"
    /\ result.alerts[3].severity = "CRITICAL"

\* the histories of at least two entries whose second-to-last entry is m
HistoriesWithSecondToLast(m) ==
    {h \in Histories : Len(h) >= 2 /\ h[Len(h) - 1] = m}

\* C12: the alerts depend on the second-to-last entry and the current
\* snapshot only: every other history of two or more entries with the same
\* second-to-last entry gives the same alerts for the same current snapshot.
C12_OnlySecondToLastMatters ==
    (AlertsReturned /\ HistoryLen >= 2) =>
        \A h \in HistoriesWithSecondToLast(metrics_file.entries[HistoryLen - 1]) :
            detect_degradation([kind |-> "list", entries |-> h], current_metrics).alerts
                = result.alerts

\* C12 witness: a history of three distinct entries whose last entry would
\* have given other alerts, and a shorter history with another last entry
\* shares its second-to-last entry
C12_Witness ==
    /\ AlertsReturned
    /\ HistoryLen = 3
    /\ result.alerts # <<>>
    /\ metrics_file.entries[3] # metrics_file.entries[2]
    /\ metrics_file.entries[1] # metrics_file.entries[2]
    /\ CompareMetrics(metrics_file.entries[3], current_metrics) # result.alerts
    /\ \E h \in HistoriesWithSecondToLast(metrics_file.entries[2]) :
          Len(h) = 2 /\ h[2] # metrics_file.entries[3]

\* the area named by the recommendation of a component
AreaOf(n) ==
    CASE n = "code_quality" -> "Code Quality"
      [] n = "complexity" -> "Complexity"
      [] n = "test_coverage" -> "Test Coverage"
      [] n = "dependencies" -> "Security"
      [] n = "duplication" -> "Code Duplication"

RecommendationsFor(n) ==
    {i \in 1..Len(result.recommendations) : result.recommendations[i].area = AreaOf(n)}

\* C13: the recommendations hold exactly one record for each component whose
\* sub-score is above 60 and none for a component at 60 or below; there are
\* at most five.
C13_OneRecommendationPerHighDebt ==
    ReportReturned =>
        /\ Len(result.recommendations) <= 5
        /\ \A i \in 1..Len(result.recommendations) :
              \E n \in ComponentNames : result.recommendations[i].area = AreaOf(n)
        /\ \A n \in ComponentNames :
              Cardinality(RecommendationsFor(n))
                  = IF result.components[n].score > 60 * DScale THEN 1 ELSE 0

\* C13 witness: two components at exactly 60 without a record, the three
\* others above 60 with one
C13_Witness ==
    /\ ReportReturned
    /\ result.components.code_quality.score = 60 * DScale
    /\ result.components.dependencies.score = 60 * DScale
    /\ result.components.complexity.score > 60 * DScale
    /\ result.components.test_coverage.score > 60 * DScale
    /\ result.components.duplication.score > 60 * DScale
    /\ Len(result.recommendations) = 3

\* the place of an area in the iteration order of the components
AreaRank(a) ==
    CASE a = "Code Quality" -> 1
      [] a = "Complexity" -> 2
      [] a = "Test Coverage" -> 3
      [] a = "Security" -> 4
      [] a = "Code Duplication" -> 5

\* C14: when the dependencies sub-score is above 60 the CRITICAL security
\* recommendation is the first of the list, whatever else is in it, and the
\* others follow in the order code_quality, complexity, test_coverage,
\* duplication.
C14_CriticalFirstThenIterationOrder ==
    (ReportReturned /\ result.components.dependencies.score > 60 * DScale) =>
        LET recs == result.recommendations
        IN  /\ Len(recs) >= 1
            /\ recs[1].priority = "CRITICAL"
            /\ recs[1].area = "Security"
            /\ \A i \in 2..Len(recs) : recs[i].priority # "CRITICAL"
            /\ \A i, j \in 2..Len(recs) :
                  i < j => AreaRank(recs[i].area) < AreaRank(recs[j].area)

\* C14 witness: ten vulnerabilities and every other component above 60 as
\* well: five records, the security one moved from fourth to first place
C14_Witness ==
    /\ ReportReturned
    /\ result.components.dependencies.metric = 10
    /\ Len(result.recommendations) = 5
    /\ result.recommendations[1].area = "Security"
    /\ result.recommendations[2].area = "Code Quality"
    /\ result.recommendations[5].area = "Code Duplication"

KnownFields ==
    {"code_quality_score", "avg_complexity", "test_coverage",
     "dependency_vulnerabilities", "code_duplication_percent"}

\* the documented default of a known field
DocumentedDefault(k) ==
    CASE k = "code_quality_score" -> 5 * MScale
      [] k = "avg_complexity" -> 7 * MScale
      [] k = "test_coverage" -> 50 * MScale
      [] k = "dependency_vulnerabilities" -> 0
      [] k = "code_duplication_percent" -> 5 * MScale

\* the snapshot with every absent field set to its default and every
\* unknown field dropped
Completed(m) ==
    [k \in KnownFields |-> IF k \in DOMAIN m THEN m[k] ELSE DocumentedDefault(k)]

\* C15: a snapshot with absent fields gets a report, and it is the report of
\* the snapshot in which each absent field has its documented default;
\* unknown fields change nothing.
C15_MissingFieldsTakeDefaults ==
    (pc = "return" /\ op = "calculate_debt_index") =>
        /\ result.kind = "report"
        /\ result = calculate_debt_index(weights, Completed(current_metrics), result.timestamp)
        /\ \A n \in ComponentNames :
              result.components[n].metric
                  = Completed(current_metrics)[
                        CASE n = "code_quality" -> "code_quality_score"
                          [] n = "complexity" -> "avg_complexity"
                          [] n = "test_coverage" -> "test_coverage"
                          [] n = "dependencies" -> "dependency_vulnerabilities"
                          [] n = "duplication" -> "code_duplication_percent"]

\* C15 witness: a snapshot with an unknown field and none of the known ones
C15_Witness ==
    /\ ReportReturned
    /\ DOMAIN current_metrics = {"lines_of_code"}
    /\ result.total_index = 2450
    /\ result.severity = "ACCEPTABLE"

\* the report of the current snapshot with avg_complexity replaced by c
ReportWithComplexity(c) ==
    calculate_debt_index(weights, [current_metrics EXCEPT !["avg_complexity"] = c],
                         result.timestamp)

\* C17: of two snapshots that differ in avg_complexity only, the one with the
\* larger avg_complexity has a complexity sub-score and a total_index at
\* least as large.
C17_MonotoneInComplexity ==
    (ReportReturned /\ "avg_complexity" \in DOMAIN current_metrics) =>
        \A c \in ComplexityValues :
            c >= current_metrics["avg_complexity"] =>
                /\ ReportWithComplexity(c).components.complexity.score
                      >= result.components.complexity.score
                /\ ReportWithComplexity(c).total_index >= result.total_index

\* C17 witness: a snapshot just below the breakpoint 15: each of the larger
\* values gives strictly more complexity debt; the step to 15 is lost in the
\* rounding of total_index, the step to 17 is not
C17_Witness ==
    /\ ReportReturned
    /\ "avg_complexity" \in DOMAIN current_metrics
    /\ current_metrics["avg_complexity"] = 14999
    /\ result.components.complexity.score > 0
    /\ \A c \in ComplexityValues :
          c > 14999 =>
              ReportWithComplexity(c).components.complexity.score
                  > result.components.complexity.score
    /\ ReportWithComplexity(15000).total_index = result.total_index
    /\ ReportWithComplexity(17000).total_index > result.total_index

\* the snapshot is at the worst documented values
AtWorstValues(m) ==
    /\ KnownFields \subseteq DOMAIN m
    /\ m["code_quality_score"] = 0
    /\ m["avg_complexity"] >= 25 * MScale
    /\ m["test_coverage"] = 0
    /\ m["dependency_vulnerabilities"] >= 10
    /\ m["code_duplication_percent"] >= 30 * MScale

\* C18: at the worst documented values total_index is exactly 95.0, the
\* severity is EXTREME, coverage debt is 75 and the four other debts are 100.
C18_WorstCaseIs95 ==
    (ReportReturned /\ AtWorstValues(current_metrics)) =>
        /\ result.total_index = 9500
        /\ result.severity = "EXTREME"
        /\ result.components.test_coverage.score = 75 * DScale
        /\ result.components.code_quality.score = 100 * DScale
        /\ result.components.complexity.score = 100 * DScale
        /\ result.components.dependencies.score = 100 * DScale
        /\ result.components.duplication.score = 100 * DScale

\* C18 witness: a worst snapshot beyond the saturation points
C18_Witness ==
    /\ ReportReturned
    /\ AtWorstValues(current_metrics)
    /\ current_metrics["avg_complexity"] > 25 * MScale
    /\ current_metrics["dependency_vulnerabilities"] > 10
    /\ current_metrics["code_duplication_percent"] > 30 * MScale
    /\ result.total_index = 9500

VulnerabilityAlerts == AlertsOfType(result.alerts, "NEW_VULNERABILITIES")

\* C20: from 0 vulnerabilities in the baseline to 1 in the current snapshot,
\* the other tracked fields being equal, there is exactly one alert, a
\* CRITICAL NEW_VULNERABILITIES with change 1; any increase of the count
\* fires this alert, with the increase as its change.
C20_AnyNewVulnerabilityAlerts ==
    Compared =>
        LET previous == metrics_file.entries[baseline.index]
            pv == Field(previous, "NEW_VULNERABILITIES")
            cv == Field(current_metrics, "NEW_VULNERABILITIES")
            others == RuleTypes \ {"NEW_VULNERABILITIES"}
        IN  /\ cv > pv =>
                /\ Cardinality(VulnerabilityAlerts) = 1
                /\ \A i \in VulnerabilityAlerts :
                      /\ result.alerts[i].severity = "CRITICAL"
                      /\ result.alerts[i].change = cv - pv
            /\ (/\ pv = 0
                /\ cv = 1
                /\ \A t \in others : Field(previous, t) = Field(current_metrics, t)) =>
                    /\ Len(result.alerts) = 1
                    /\ result.alerts[1].type = "NEW_VULNERABILITIES"
                    /\ result.alerts[1].severity = "CRITICAL"
                    /\ result.alerts[1].change = 1

\* C20 witness: the count goes from 0 to 1 and nothing else differs
C20_Witness ==
    /\ Compared
    /\ Field(metrics_file.entries[baseline.index], "NEW_VULNERABILITIES") = 0
    /\ Field(current_metrics, "NEW_VULNERABILITIES") = 1
    /\ \A t \in RuleTypes \ {"NEW_VULNERABILITIES"} :
          Field(metrics_file.entries[baseline.index], t) = Field(current_metrics, t)
    /\ Len(result.alerts) = 1

\* ============================================== claims: sequences of calls
\* a report without its timestamp
Content(report) ==
    <<report.total_index, report.components, report.severity, report.recommendations>>

CalculateCalls ==
    {i \in 1..Len(returned) : returned[i].op = "calculate_debt_index"}

\* C16: two calculate_debt_index calls with the same snapshot return the
\* same total_index, components, severity and recommendations, whatever
\* their order and whatever calls were made in between.
C16_SameSnapshotSameReport ==
    \A i, j \in CalculateCalls :
        returned[i].arg = returned[j].arg =>
            Content(returned[i].result) = Content(returned[j].result)

\* C16 witness: the same snapshot calculated twice, with a call of the other
\* method in between, and only the timestamps differ
C16_Witness ==
    /\ Len(returned) = 3
    /\ returned[1].op = "calculate_debt_index"
    /\ returned[2].op = "detect_degradation"
    /\ returned[2].result.alerts # <<>>
    /\ returned[3].op = "calculate_debt_index"
    /\ returned[1].arg = returned[3].arg
    /\ returned[1].result.recommendations # <<>>
    /\ returned[1].result.timestamp # returned[3].result.timestamp
    /\ Content(returned[1].result) = Content(returned[3].result)

\* C19: a call of either method leaves the snapshot it was given, the
\* metrics file with all its entries, and the calculator's weights as they
\* were.
C19_CallsChangeNothingGiven ==
    [][(pc = "call" /\ pc' = "return") =>
          /\ current_metrics' = current_metrics
          /\ metrics_file' = metrics_file
          /\ weights' = weights]_vars

\* C19 witness: both methods have been called on a snapshot with absent
\* fields against a history that gave alerts; the argument on record is the
\* one still held, the file still has its two entries
C19_Witness ==
    /\ pc = "return"
    /\ Len(returned) = 2
    /\ returned[1].op = "detect_degradation"
    /\ returned[1].result.alerts # <<>>
    /\ returned[2].op = "calculate_debt_index"
    /\ returned[2].arg = current_metrics
    /\ DOMAIN current_metrics # KnownFields
    /\ metrics_file.kind = "list"
    /\ Len(metrics_file.entries) = 2
    /\ weights = InitialWeights

\* ================================================= claims: the weights
\* the documented weight of a component, in hundredths
DocumentedWeight(n) ==
    CASE n = "code_quality" -> 30
      [] n = "complexity" -> 25
      [] n = "test_coverage" -> 20
      [] n = "dependencies" -> 15
      [] n = "duplication" -> 10

\* C21: the five weights are 0.30, 0.25, 0.20, 0.15 and 0.10, they add up to
\* exactly 1.0, and every report carries these weights in its components,
\* whatever the snapshot.
C21_WeightsAreTheFixedConstants ==
    /\ DOMAIN weights = ComponentNames
    /\ \A n \in ComponentNames : weights[n] * 100 = DocumentedWeight(n) * WScale
    /\ weights.code_quality + weights.complexity + weights.test_coverage
          + weights.dependencies + weights.duplication = WScale
    /\ ReportReturned =>
          \A n \in ComponentNames :
              result.components[n].weight * 100 = DocumentedWeight(n) * WScale

\* C21 witness: a report for a snapshot with values out of their ranges and
\* absent fields
C21_Witness ==
    /\ ReportReturned
    /\ DOMAIN current_metrics = {"test_coverage", "code_duplication_percent"}
    /\ current_metrics["test_coverage"] < 0
    /\ current_metrics["code_duplication_percent"] < 0
    /\ result.components.code_quality.weight = 6
    /\ result.components.duplication.weight = 2

\* ============================================ claims: the component formulas
\* (100 - coverage) * 0.75 clamped to [0,100] at both ends, in units of 1/DScale
ClampedCoverageDebt(coverage) ==
    LET raw == ((100 * MScale - coverage) * 75 * (DScale \div MScale)) \div 100
    IN  IF raw < 0 THEN 0 ELSE IF raw > 100 * DScale THEN 100 * DScale ELSE raw

\* C23: for every test_coverage value the coverage debt of a returned report is
\* (100 - coverage) * 0.75 clamped to [0,100] at both ends: 100 gives 0, 0 gives
\* 75, a value above 100 gives 0, and no value gives a debt above 100.
C23_CoverageDebtClampedBothEnds ==
    ReportReturned =>
        LET coverage == result.components.test_coverage.metric
            debt == result.components.test_coverage.score
        IN  /\ debt = ClampedCoverageDebt(coverage)
            /\ debt <= 100 * DScale
            /\ (coverage = 100 * MScale => debt = 0)
            /\ (coverage = 0 => debt = 75 * DScale)
            /\ (coverage > 100 * MScale => debt = 0)

\* the largest change of a debt over one thousandth of its metric when the
\* debt rises by at most slope points per point of the metric
StepBound(slope) == slope * (DScale \div MScale)

\* C24: the complexity debt of a returned report is 0 below 7,
\* (complexity - 7) * 50/8 from 7 up to 15 and 50 + min(50, (complexity - 15) * 5)
\* from 15 on; it is continuous at the breakpoints (7 gives 0, 15 gives 50, and
\* the debt one thousandth below differs by no more than one step of the
\* steepest segment) and is 100 for every complexity of 25 or more.
C24_ComplexityDebtIsPiecewise ==
    ReportReturned =>
        LET c == result.components.complexity.metric
            debt == result.components.complexity.score
            below == _calculate_complexity_debt(c - 1)
        IN  /\ (c < 7 * MScale => debt = 0)
            /\ ((c >= 7 * MScale /\ c < 15 * MScale) =>
                    8 * debt = (c - 7 * MScale) * 50 * (DScale \div MScale))
            /\ ((c >= 15 * MScale /\ c < 25 * MScale) =>
                    debt = 50 * DScale + (c - 15 * MScale) * 5 * (DScale \div MScale))
            /\ (c >= 25 * MScale => debt = 100 * DScale)
            /\ (c = 7 * MScale => debt = 0)
            /\ (c = 15 * MScale => debt = 50 * DScale)
            /\ debt - below >= 0
            /\ 8 * (debt - below) <= StepBound(50)

\* C24 witness: a report computed at the breakpoint 15: its debt is 50 and the
\* debt one thousandth below is 49.99375
C24_Witness ==
    /\ ReportReturned
    /\ "avg_complexity" \in DOMAIN current_metrics
    /\ current_metrics["avg_complexity"] = 15 * MScale
    /\ result.components.complexity.score = 50 * DScale
    /\ _calculate_complexity_debt(15 * MScale - 1) = 4999375

\* C25: the duplication debt of a returned report is duplication * 4 below 5,
\* 20 + (duplication - 5) * 5 from 5 up to 15 and
\* 70 + min(30, (duplication - 15) * 2) from 15 on; it is continuous at the
\* breakpoints (5 gives 20, 15 gives 70, no jump from the value one thousandth
\* below), non-decreasing in duplication, and 100 for every duplication of 30
\* or more.
C25_DuplicationDebtIsPiecewise ==
    ReportReturned =>
        LET d == result.components.duplication.metric
            debt == result.components.duplication.score
            below == _calculate_duplication_debt(d - 1)
        IN  /\ (d < 5 * MScale => debt = d * 4 * (DScale \div MScale))
            /\ ((d >= 5 * MScale /\ d < 15 * MScale) =>
                    debt = 20 * DScale + (d - 5 * MScale) * 5 * (DScale \div MScale))
            /\ ((d >= 15 * MScale /\ d < 30 * MScale) =>
                    debt = 70 * DScale + (d - 15 * MScale) * 2 * (DScale \div MScale))
            /\ (d >= 30 * MScale => debt = 100 * DScale)
            /\ (d = 5 * MScale => debt = 20 * DScale)
            /\ (d = 15 * MScale => debt = 70 * DScale)
            /\ debt - below >= 0
            /\ debt - below <= StepBound(5)
            /\ \A e \in DuplicationValues :
                  e >= d => _calculate_duplication_debt(e) >= debt

\* C25 witness: a report computed at the breakpoint 15: its debt is 70, the debt
\* one thousandth below is 69.995, and a larger duplication gives more debt
C25_Witness ==
    /\ ReportReturned
    /\ "code_duplication_percent" \in DOMAIN current_metrics
    /\ current_metrics["code_duplication_percent"] = 15 * MScale
    /\ result.components.duplication.score = 70 * DScale
    /\ _calculate_duplication_debt(15 * MScale - 1) = 6999500
    /\ _calculate_duplication_debt(30 * MScale) > result.components.duplication.score

\* =========================================== claims: the stored history file
\* the file holds decodable JSON
DecodableKinds == {"list", "object", "scalar"}

DetectReturned == pc = "return" /\ op = "detect_degradation"

\* C26: detect_degradation never raises, whatever decodable content the
\* history file holds (a top-level value that is not a list, entries without
\* the tracked fields): it returns a list of alerts.
C26_NeverRaisesOnDecodableContent ==
    (DetectReturned /\ metrics_file.kind \in DecodableKinds) =>
        result.kind = "alerts"

\* the file is missing, cannot be read, or holds no decodable JSON
NoJsonKinds == {"absent", "unreadable", "undecodable", "corrupt"}

\* C27: when the history file does not exist, cannot be read or does not
\* contain decodable JSON, a call of detect_degradation returns the empty list,
\* raises nothing and leaves the file as it was (absent stays absent).
C27_NoJsonReturnsEmptyAndKeepsFile ==
    [][(pc = "call" /\ op = "detect_degradation"
            /\ metrics_file.kind \in NoJsonKinds) =>
          (/\ result' = [kind |-> "alerts", alerts |-> <<>>]
           /\ metrics_file' = metrics_file)]_vars

\* ------------------------------------------------- the LOC trend collector
\* Days are counted from 2026-01-01, which is day 0. strftime("%Y-%m-%d")
\* gives three zero-padded numbers of fixed width, kept as <<year, month, day>>:
\* the order of the strings is the lexicographic order of the triples, and the
\* empty string that stands for a missing date is <<>>.
IsLeap(y) == (y % 4 = 0 /\ y % 100 # 0) \/ y % 400 = 0

DaysInMonth(y, m) ==
    IF m = 2 THEN (IF IsLeap(y) THEN 29 ELSE 28)
    ELSE IF m \in {4, 6, 9, 11} THEN 30
    ELSE 31

\* the date n days after the first of month m of year y
RECURSIVE DateFrom(_, _, _)
DateFrom(y, m, n) ==
    IF n < DaysInMonth(y, m) THEN <<y, m, n + 1>>
    ELSE IF m = 12 THEN DateFrom(y + 1, 1, n - DaysInMonth(y, m))
    ELSE DateFrom(y, m + 1, n - DaysInMonth(y, m))

strftime(day) == DateFrom(2026, 1, day)

\* a >= b on the date strings
StrGE(a, b) ==
    IF b = <<>> THEN TRUE
    ELSE IF a = <<>> THEN FALSE
    ELSE \/ a[1] > b[1]
         \/ a[1] = b[1] /\ a[2] > b[2]
         \/ a[1] = b[1] /\ a[2] = b[2] /\ a[3] >= b[3]

\* record.get("date") == date: a record without date matches no date
DateIs(record, date) == "date" \in DOMAIN record /\ record.date = date

\* existing_idx of the loop: the first record of that date, 0 for None
FirstIndexOfDate(history, date) ==
    LET matches == {i \in 1..Len(history) : DateIs(history[i], date)}
    IN  IF matches = {} THEN 0
        ELSE CHOOSE i \in matches : \A j \in matches : i <= j

\* a variant of update_history_with_snapshot that appends in every case
update_history_with_snapshot_append(history, snap, day) ==
    LET cutoff_date == strftime(day - 90)
        within(record) == StrGE(Get(record, "date", <<>>), cutoff_date)
    IN  SelectSeq(Append(history, snap), within)

\* a variant of update_history_with_snapshot that keeps only the records
\* after the cutoff date
update_history_with_snapshot_after(history, snap, day) ==
    LET existing_idx == FirstIndexOfDate(history, snap.date)
        updated == IF existing_idx # 0
                   THEN [history EXCEPT ![existing_idx] = snap]
                   ELSE Append(history, snap)
        cutoff_date == strftime(day - 90)
        within(record) ==
            /\ StrGE(Get(record, "date", <<>>), cutoff_date)
            /\ Get(record, "date", <<>>) # cutoff_date
    IN  SelectSeq(updated, within)

\* self.history after the call, day being the day of datetime.now()
update_history_with_snapshot(history, snap, day) ==
    LET existing_idx == FirstIndexOfDate(history, snap.date)
        updated == IF existing_idx # 0
                   THEN [history EXCEPT ![existing_idx] = snap]
                   ELSE Append(history, snap)
        cutoff_date == strftime(day - 90)
        within(record) == StrGE(Get(record, "date", <<>>), cutoff_date)
    IN  SelectSeq(updated, within)

\* the day of the first run: 2027-01-15, so that the window starts in the
\* year before
FirstDay == 379

\* the days between two runs
DayGaps == {0, 1, 90}

\* the records a loaded history may hold: one per day around the two ends of
\* the window, and one without a date
MaxRecords == 3

LoadedRecords ==
    {[date |-> strftime(FirstDay - k), total_lines |-> 0] : k \in {91, 90, 89, 1, 0}}
    \cup {[total_lines |-> 0]}

NoDuplicateDates(history) ==
    \A i, j \in 1..Len(history) :
        (i # j /\ "date" \in DOMAIN history[i]) => ~DateIs(history[j], history[i].date)

LoadedHistories ==
    {h \in UNION {[1..n -> LoadedRecords] : n \in 0..MaxRecords} : NoDuplicateDates(h)}

\* load_history has run
InitLoc ==
    /\ op = "update_history_with_snapshot"
    /\ pc = "collect"
    /\ loc_history \in LoadedHistories
    /\ snapshot = NoSnapshot
    /\ today = FirstDay
    /\ returned = <<>>
    /\ CoreIdle
    /\ AnalyzerIdle

\* collect_current_snapshot: the snapshot carries the date of the day; its
\* line count is the number of the run
CollectCurrentSnapshot ==
    /\ pc = "collect"
    /\ snapshot' = [date |-> strftime(today), total_lines |-> Len(returned) + 1]
    /\ pc' = "update"
    /\ UNCHANGED <<metrics_file, weights, op, current_metrics, result, baseline, now,
                   returned, threads, loc_history, today, history_file, results>>

\* midnight passes between the collection and the update
Midnight ==
    /\ pc = "update"
    /\ today' = today + 1
    /\ pc' = "update_next_day"
    /\ UNCHANGED <<metrics_file, weights, op, current_metrics, result, baseline, now,
                   returned, threads, loc_history, snapshot, history_file, results>>

\* what the call read: its argument, self.history and the clock
UpdateInputs == [snapshot |-> snapshot, history |-> loc_history, today |-> today]

UpdateHistoryWithSnapshot ==
    /\ pc \in {"update", "update_next_day"}
    /\ loc_history' = update_history_with_snapshot(loc_history, snapshot, today)
    /\ pc' = "done"
    /\ returned' = Append(returned, CallRecord(op, UpdateInputs, NoResult))
    /\ UNCHANGED <<metrics_file, weights, op, current_metrics, result, baseline, now,
                   threads, snapshot, today, history_file, results>>

\* save_history, then a later run on the saved history
NextRun ==
    /\ pc = "done"
    /\ Len(returned) < MaxCalls
    /\ \E k \in DayGaps : today' = today + k
    /\ pc' = "collect"
    /\ snapshot' = NoSnapshot
    /\ UNCHANGED <<metrics_file, weights, op, current_metrics, result, baseline, now,
                   returned, threads, loc_history, history_file, results>>

NextLoc == CollectCurrentSnapshot \/ Midnight \/ UpdateHistoryWithSnapshot \/ NextRun

SpecLoc == InitLoc /\ [][NextLoc]_vars

\* ------------------------------------------------- the repository analyzer
\* A timestamp is a string: text "iso" for one that datetime.fromisoformat
\* parses, to the day number at, and text "other" for any other string.
IsoTimestamp(day) == [text |-> "iso", at |-> day]

OtherTimestamp == [text |-> "other", at |-> 0]

\* the exception that h['timestamp'] or fromisoformat raises for an entry,
\* "none" if the entry has a timestamp that parses
TimestampError(h) ==
    IF "timestamp" \notin DOMAIN h THEN "KeyError"
    ELSE IF h.timestamp.text # "iso" THEN "ValueError"
    ELSE "none"

\* the exception of the first entry the filter cannot evaluate
FilterError(history) ==
    LET bad == {i \in 1..Len(history) : TimestampError(history[i]) # "none"}
    IN  IF bad = {} THEN "none"
        ELSE TimestampError(history[CHOOSE i \in bad : \A j \in bad : i <= j])

\* the record of the current run
RunRecord(res) == [timestamp |-> res.timestamp, warning_count |-> Len(res.warnings)]

\* the exception that ends the try block before the file is written, "none"
\* if the block runs to its end
SaveError(file, res) ==
    IF file.kind = "undecodable" THEN "UnicodeDecodeError"
    ELSE IF file.kind = "corrupt" THEN "JSONDecodeError"
    ELSE IF file.kind = "scalar" THEN "AttributeError"
    ELSE FilterError(Append(file.entries, RunRecord(res)))

Failed(file, res) ==
    [file |-> file,
     results |-> [res EXCEPT !.warnings = Append(@, SaveError(file, res))]]

\* a variant of save_historical_data whose filter skips the entries it cannot
\* evaluate instead of failing
save_historical_data_skipping(file, res, day) ==
    IF file.kind \in {"undecodable", "corrupt", "scalar"} THEN Failed(file, res)
    ELSE LET cutoff == day - 30
             recent(h) == TimestampError(h) = "none" /\ h.timestamp.at > cutoff
             history == SelectSeq(Append(file.entries, RunRecord(res)), recent)
         IN  [file |-> [kind |-> "list", entries |-> history],
              results |-> [k \in DOMAIN res \cup {"historical_trends"} |->
                              IF k = "historical_trends" THEN history ELSE res[k]]]

\* the history file and self.results after the call, day being the day of
\* datetime.now()
save_historical_data(file, res, day) ==
    IF SaveError(file, res) # "none" THEN Failed(file, res)
    ELSE LET cutoff == day - 30
             recent(h) == h.timestamp.at > cutoff
             history == SelectSeq(Append(file.entries, RunRecord(res)), recent)
         IN  [file |-> [kind |-> "list", entries |-> history],
              results |-> [k \in DOMAIN res \cup {"historical_trends"} |->
                              IF k = "historical_trends" THEN history ELSE res[k]]]

\* the entries an analysis history file may hold: records of the days around
\* the cutoff and of the day before the first run, an entry without
\* timestamp, and an entry whose timestamp does not parse
MaxEntries == 2

StoredEntries ==
    {[timestamp |-> IsoTimestamp(FirstDay - k), warning_count |-> 0] :
        k \in {31, 30, 29, 1}}
    \cup {[warning_count |-> 0],
          [timestamp |-> OtherTimestamp, warning_count |-> 0]}

HistoryFiles ==
    {AbsentFile, CorruptFile, UndecodableFile, ScalarFile}
    \cup {[kind |-> "list", entries |-> h] :
            h \in UNION {[1..n -> StoredEntries] : n \in 0..MaxEntries}}

\* the warnings the analysis modules of a run have appended before the save
WarningsBefore == {<<>>, <<"Stats error">>}

Analyzed(day, warnings) == [timestamp |-> IsoTimestamp(day), warnings |-> warnings]

\* a run has come to save_historical_data
InitAnalyzer ==
    /\ op = "save_historical_data"
    /\ pc = "save"
    /\ today = FirstDay
    /\ history_file \in HistoryFiles
    /\ results \in {Analyzed(FirstDay, w) : w \in WarningsBefore}
    /\ returned = <<>>
    /\ loc_history = <<>>
    /\ snapshot = NoSnapshot
    /\ CoreIdle

\* what the call read: the file and self.results
SaveInputs == [file |-> history_file, results |-> results]

SaveHistoricalData ==
    /\ pc = "save"
    /\ LET saved == save_historical_data(history_file, results, today)
       IN  /\ history_file' = saved.file
           /\ results' = saved.results
    /\ pc' = "saved"
    /\ returned' = Append(returned,
                          CallRecord(op, SaveInputs, [kind |-> "saved", results |-> results']))
    /\ UNCHANGED <<metrics_file, weights, op, current_metrics, result, baseline, now,
                   threads, loc_history, snapshot, today>>

\* a later run of the analyzer, a new process with new results
RunAnalysis ==
    /\ pc = "saved"
    /\ Len(returned) < MaxCalls
    /\ \E k \in {0, 1, 30} : today' = today + k
    /\ \E w \in WarningsBefore : results' = Analyzed(today', w)
    /\ pc' = "save"
    /\ UNCHANGED <<metrics_file, weights, op, current_metrics, result, baseline, now,
                   returned, threads, loc_history, snapshot, history_file>>

NextAnalyzer == SaveHistoricalData \/ RunAnalysis

SpecAnalyzer == InitAnalyzer /\ [][NextAnalyzer]_vars

\* ================================================= claims: concurrent calls
\* what a call returns when it runs alone on the calculator and the detector
\* as constructed, the timestamp of a report left out
Alone(o, m) ==
    IF o = "calculate_debt_index"
    THEN Content(calculate_debt_index(InitialWeights, m, 0))
    ELSE LET r == detect_degradation(metrics_file, m)
         IN  IF r.raised = "none" THEN <<"alerts", r.alerts>>
             ELSE <<"raise", r.raised>>

\* what a concurrent call has returned, the timestamp of a report left out
Outcome(r) ==
    IF r.kind = "report" THEN Content(r)
    ELSE IF r.kind = "alerts" THEN <<"alerts", r.alerts>>
    ELSE <<"raise", r.exception>>

\* C22: calls of calculate_debt_index and detect_degradation that run
\* concurrently on shared instances return, under every interleaving of their
\* steps, what each would return alone; the shared weights are never written.
C22_ConcurrentCallsReturnAsAlone ==
    pc = "threads" =>
        /\ weights = InitialWeights
        /\ \A t \in ThreadIds :
              threads[t].pc = "done" =>
                  Outcome(threads[t].result) = Alone(threads[t].op, threads[t].arg)

\* C22 witness: a calculation and a detection have both returned, each took a
\* step while the other was between its steps, and neither result is trivial
C22_Witness ==
    /\ pc = "threads"
    /\ \A t \in ThreadIds : threads[t].pc = "done" /\ threads[t].overlapped
    /\ \E t \in ThreadIds :
          /\ threads[t].op = "calculate_debt_index"
          /\ threads[t].result.recommendations # <<>>
    /\ \E t \in ThreadIds :
          /\ threads[t].op = "detect_degradation"
          /\ threads[t].result.kind = "alerts"
          /\ threads[t].result.alerts # <<>>

\* ================================================== claims: the LOC history
\* the number of the day of a date, counted as strftime counts
RECURSIVE DaysBefore(_, _)
DaysBefore(y, m) ==
    IF y = 2026 /\ m = 1 THEN 0
    ELSE IF m = 1 THEN DaysBefore(y - 1, 12) + DaysInMonth(y - 1, 12)
    ELSE DaysBefore(y, m - 1) + DaysInMonth(y, m - 1)

DayOf(date) == DaysBefore(date[1], date[2]) + date[3] - 1

HasDate(record) == "date" \in DOMAIN record

\* the record is dated on or after the cutoff, today minus 90 days
InWindow(record) == HasDate(record) /\ DayOf(record.date) >= today - 90

DatesOf(history) == [i \in 1..Len(history) |-> Get(history[i], "date", <<>>)]

UpdateStep == pc \in {"update", "update_next_day"} /\ pc' = "done"

\* C28: the LOC history keeps at most one record per date. From a history
\* without two records of one date, no call of update_history_with_snapshot
\* leaves two records of one date; a snapshot of a date already there takes
\* the place of that record (the dates stand in the order they stood in), and
\* a snapshot of a new date is the last record.
C28_OneRecordPerDate ==
    /\ NoDuplicateDates(loc_history)
    /\ [][UpdateStep =>
            LET dated == \E i \in 1..Len(loc_history) :
                             DateIs(loc_history[i], snapshot.date)
                retained == DatesOf(SelectSeq(loc_history, InWindow))
            IN  /\ NoDuplicateDates(loc_history')
                /\ \E p \in 1..Len(loc_history') : loc_history'[p] = snapshot
                /\ dated => DatesOf(loc_history') = retained
                /\ ~dated =>
                      /\ DatesOf(loc_history') = Append(retained, snapshot.date)
                      /\ loc_history'[Len(loc_history')] = snapshot]_vars

\* C28 witness: the snapshot has replaced the first of two records, the other
\* still follows it
C28_Witness ==
    /\ pc = "done"
    /\ op = "update_history_with_snapshot"
    /\ Len(loc_history) = 2
    /\ loc_history[1] = snapshot
    /\ LET before == returned[Len(returned)].arg.history
       IN  /\ Len(before) = 2
           /\ DateIs(before[1], snapshot.date)
           /\ before[1] # snapshot
           /\ loc_history[2] = before[2]

Unusable(file) ==
    \/ file.kind \in {"corrupt", "undecodable"}
    \/ /\ file.kind = "list"
       /\ \E i \in 1..Len(file.entries) :
             \/ "timestamp" \notin DOMAIN file.entries[i]
             \/ file.entries[i].timestamp.text # "iso"

\* C30: when the existing analysis history file cannot be loaded or filtered,
\* save_historical_data leaves the file unchanged, does not set
\* results['historical_trends'] and appends exactly one warning; and through
\* all later runs the file stays as it is, so the record of no such run is
\* ever in it.
C30_UnusableHistoryIsNeverExtended ==
    op = "save_historical_data" =>
        \A i \in 1..Len(returned) :
            LET before == returned[i].arg
                after == returned[i].result.results
            IN  Unusable(before.file) =>
                    /\ history_file = before.file
                    /\ "historical_trends" \notin DOMAIN after
                    /\ Len(after.warnings) = Len(before.results.warnings) + 1
                    /\ SubSeq(after.warnings, 1, Len(before.results.warnings))
                          = before.results.warnings
                    /\ after.timestamp = before.results.timestamp
                    /\ \A j \in 1..Len(history_file.entries) :
                          history_file.entries[j] # RunRecord(before.results)

\* C30 witness: the third run a month after the first has failed like the
\* two before it, on a file of a recent entry followed by an entry without
\* timestamp; its results carry the warning it came with and the one of the
\* failure
C30_Witness ==
    /\ op = "save_historical_data"
    /\ pc = "saved"
    /\ Len(returned) = 3
    /\ today >= FirstDay + 30
    /\ history_file.kind = "list"
    /\ Len(history_file.entries) = 2
    /\ TimestampError(history_file.entries[1]) = "none"
    /\ history_file.entries[1].timestamp.at = FirstDay - 1
    /\ "timestamp" \notin DOMAIN history_file.entries[2]
    /\ results.warnings = <<"Stats error", "KeyError">>
    /\ "historical_trends" \notin DOMAIN results

====
